---- MODULE Spec2Model ----
(***************************************************************************)
(* Portfolio tracker: the JSON ledger of portfolio_cli.py (PortfolioData), *)
(* its report engine (PortfolioReporter.generate_report), and the CSV      *)
(* ledger and report of portfolio_gui.py.                                  *)
(*                                                                         *)
(* Strings are sequences of one-character strings, so that upper(),        *)
(* lower(), endswith() and the sort order of groupby are computed.         *)
(* Floats are exact rationals extended with nan and +-inf (rounding is     *)
(* not modelled).                                                          *)
(***************************************************************************)
EXTENDS Integers, Sequences, FiniteSets, TLC

\* ------------------------------------------------------------------ bounds

\* Number of clock readings (mutating commands) in one behaviour.
MaxTime == 2

\* Longest symbol tried as the argument of classify_asset.
MaxSymbolLen == 4

\* The most refresh_data background tasks started in one run of the GUI.
MaxTasks == 2

\* ----------------------------------------------------------------- strings

\* The characters used, in ASCII order (str comparison in Python).
CharOrder ==
    << "-", ".",
       "A", "B", "C", "D", "E", "F", "G", "H", "I", "J", "K", "L", "M",
       "N", "O", "P", "Q", "R", "S", "T", "U", "V", "W", "X", "Y", "Z",
       "_",
       "a", "b", "c", "d", "e", "f", "g", "h", "i", "j", "k", "l", "m",
       "n", "o", "p", "q", "r", "s", "t", "u", "v", "w", "x", "y", "z" >>

\* ord(c), as the position in CharOrder.
OrdTable ==
    [c \in { CharOrder[i] : i \in 1..Len(CharOrder) } |->
        CHOOSE i \in 1..Len(CharOrder) : CharOrder[i] = c]

Ord(c) == OrdTable[c]

\* Offsets of "A" and "a" in CharOrder, and the alphabet's size.
OrdUpperA == Ord("A")

OrdLowerA == Ord("a")

Letters == Ord("Z") - Ord("A") + 1

\* str.upper() and str.lower(), character by character.
UpperChar(c) ==
    LET o == Ord(c)
    IN  IF o >= OrdLowerA /\ o < OrdLowerA + Letters
        THEN CharOrder[o - OrdLowerA + OrdUpperA] ELSE c

LowerChar(c) ==
    LET o == Ord(c)
    IN  IF o >= OrdUpperA /\ o < OrdUpperA + Letters
        THEN CharOrder[o - OrdUpperA + OrdLowerA] ELSE c

Upper(s) == [i \in 1..Len(s) |-> UpperChar(s[i])]

Lower(s) == [i \in 1..Len(s) |-> LowerChar(s[i])]

\* str.endswith(suffix)
EndsWith(s, suffix) ==
    /\ Len(s) >= Len(suffix)
    /\ SubSeq(s, Len(s) - Len(suffix) + 1, Len(s)) = suffix

\* Python's < on str: lexicographic by code point, a proper prefix first.
StrLess(a, b) ==
    \E k \in 1..(Len(b)) :
        /\ \A i \in 1..(k - 1) : i <= Len(a) /\ a[i] = b[i]
        /\ \/ /\ k = Len(a) + 1
           \/ /\ k <= Len(a)
              /\ Ord(a[k]) < Ord(b[k])

\* The symbols and platform names that appear as inputs.
BTCUSD == << "B", "T", "C", "U", "S", "D" >>
btcusd == << "b", "t", "c", "u", "s", "d" >>
AAPL == << "A", "A", "P", "L" >>
USD == << "U", "S", "D" >>

binance == << "b", "i", "n", "a", "n", "c", "e" >>
okx == << "o", "k", "x" >>
coinbase == << "c", "o", "i", "n", "b", "a", "s", "e" >>
stock_etf == << "s", "t", "o", "c", "k", "_", "e", "t", "f" >>
fidelity == << "f", "i", "d", "e", "l", "i", "t", "y" >>
kraken == << "K", "r", "a", "k", "e", "n" >>

crypto == << "c", "r", "y", "p", "t", "o" >>
stock == << "s", "t", "o", "c", "k" >>

\* Tuples of strings (groupby keys) in lexicographic order.
KeyLess(a, b) ==
    \E k \in 1..Len(a) :
        /\ \A i \in 1..(k - 1) : a[i] = b[i]
        /\ StrLess(a[k], b[k])

\* The elements of a set of keys as a sequence in ascending order.
RECURSIVE SortKeys(_)
SortKeys(S) ==
    IF S = {} THEN << >>
    ELSE LET m == CHOOSE e \in S : \A o \in S \ {e} : KeyLess(e, o)
         IN  << m >> \o SortKeys(S \ {m})

\* The elements of a set as a sequence, in a fixed arbitrary order.
RECURSIVE SetToSeq(_)
SetToSeq(S) ==
    IF S = {} THEN << >>
    ELSE LET e == CHOOSE e \in S : TRUE
         IN  << e >> \o SetToSeq(S \ {e})

\* Optional values: None, or Some(v).
None == << >>

Some(v) == << v >>

\* ------------------------------------------------------------------ floats

\* A float is [k, n, d]: k = "num" is the rational n/d in lowest terms with
\* d > 0; k = "inf" is +inf (n = 1) or -inf (n = -1); k = "nan" is nan.
NaN == [k |-> "nan", n |-> 0, d |-> 0]

Inf(s) == [k |-> "inf", n |-> s, d |-> 0]

Abs(x) == IF x < 0 THEN -x ELSE x

Sign(x) == IF x < 0 THEN -1 ELSE IF x > 0 THEN 1 ELSE 0

RECURSIVE Gcd(_, _)
Gcd(a, b) == IF b = 0 THEN a ELSE Gcd(b, a % b)

Num(n, d) ==
    LET g == Gcd(Abs(n), Abs(d))
        s == IF d < 0 THEN -1 ELSE 1
    IN  [k |-> "num", n |-> (s * n) \div g, d |-> (s * d) \div g]

Flt(i) == [k |-> "num", n |-> i, d |-> 1]

IsNaN(a) == a.k = "nan"

IsNum(a) == a.k = "num"

\* The sign of a float that is not nan, with zero counted as positive
\* (negative zero is not modelled).
SignOf(a) == IF a.n < 0 THEN -1 ELSE 1

FNeg(a) == IF IsNum(a) \/ a.k = "inf" THEN [a EXCEPT !.n = -a.n] ELSE a

FAdd(a, b) ==
    IF IsNaN(a) \/ IsNaN(b) THEN NaN
    ELSE IF a.k = "inf" /\ b.k = "inf" THEN (IF a.n = b.n THEN a ELSE NaN)
    ELSE IF a.k = "inf" THEN a
    ELSE IF b.k = "inf" THEN b
    ELSE Num(a.n * b.d + b.n * a.d, a.d * b.d)

FSub(a, b) == FAdd(a, FNeg(b))

FMul(a, b) ==
    IF IsNaN(a) \/ IsNaN(b) THEN NaN
    ELSE IF a.k = "inf" \/ b.k = "inf"
         THEN (IF a.n = 0 \/ b.n = 0 THEN NaN ELSE Inf(Sign(a.n) * Sign(b.n)))
    ELSE Num(a.n * b.n, a.d * b.d)

\* numpy float division: x/0 is +-inf, 0/0 is nan, no exception.
FDiv(a, b) ==
    IF IsNaN(a) \/ IsNaN(b) THEN NaN
    ELSE IF a.k = "inf" THEN (IF b.k = "inf" THEN NaN ELSE Inf(a.n * SignOf(b)))
    ELSE IF b.k = "inf" THEN Flt(0)
    ELSE IF b.n = 0 THEN (IF a.n = 0 THEN NaN ELSE Inf(Sign(a.n)))
    ELSE Num(a.n * b.d, a.d * b.n)

FNonNegative(a) == ~IsNaN(a) /\ a.n >= 0

FPositive(a) == ~IsNaN(a) /\ a.n > 0

\* --------------------------------------------------- portfolio_cli.py: data

\* classify_asset without the upper(): a case-sensitive comparison.
classify_asset_case_sensitive(symbol) ==
    IF EndsWith(symbol, USD) THEN crypto ELSE stock

\* classify_asset: crypto when the upper-cased symbol ends with "USD".
classify_asset(symbol) ==
    IF EndsWith(Upper(symbol), USD) THEN crypto ELSE stock

\* "-" in symbol.
HasHyphen(symbol) == \E i \in 1..Len(symbol) : symbol[i] = "-"

\* symbol[:n] and symbol[n:] of Python: slices are clipped to the string.
SliceTo(symbol, n) == [i \in 1..(IF Len(symbol) < n THEN Len(symbol) ELSE n) |-> symbol[i]]

SliceFrom(symbol, n) ==
    [i \in 1..(IF Len(symbol) < n THEN 0 ELSE Len(symbol) - n) |-> symbol[i + n]]

\* The instrument an adapter that sends symbol.upper() as it is would
\* request.
okx_instId_without_hyphen(symbol) == Upper(symbol)

\* PriceFetcher.okx: the instId parameter of the request.
okx_instId(symbol) ==
    Upper(IF ~HasHyphen(symbol)
          THEN SliceTo(symbol, 3) \o << "-" >> \o SliceFrom(symbol, 3)
          ELSE symbol)

\* PriceFetcher.coinbase: the pair in the URL of the request.
coinbase_pair(symbol) ==
    Upper(IF ~HasHyphen(symbol)
          THEN SliceTo(symbol, 3) \o << "-" >> \o SliceFrom(symbol, 3)
          ELSE symbol)

\* PriceFetcher.MAPPER of portfolio_cli.py: the platforms with an adapter.
MAPPER == { binance, okx, coinbase, stock_etf }

\* The values str(uuid.uuid4())[:8] can take (two of the 16^8).
UuidValues == { "0b9e1c7a", "5f3a2d10" }

\* What the command line can supply.
SymbolInputs == { btcusd, AAPL }

PlatformInputs == { binance, stock_etf }

AmountInputs == { -1, 3 }

QtyInputs == { 0, 2 }

\* The ledger with no transaction: the dict {}.
EmptyLedger == << >>

\* dict[key] = value
Put(d, key, value) ==
    [j \in DOMAIN d \cup { key } |-> IF j = key THEN value ELSE d[j]]

\* del dict[key]
Del(d, key) == [j \in DOMAIN d \ { key } |-> d[j]]

\* The data file: absent, a complete JSON document, or what an interrupted
\* write leaves: a proper prefix of a JSON document (empty right after the
\* open), which json.load rejects.
NoData == [transactions |-> EmptyLedger, last_updated |-> 0]

FileAbsent == [state |-> "absent", data |-> NoData]

FileTruncated == [state |-> "truncated", data |-> NoData]

FileComplete(data) == [state |-> "complete", data |-> data]

\* How a read and a write of the file can end. Reading an absent file is
\* not attempted, and a file that does not parse fails in json.load.
ReadOutcomes(f) == IF f.state = "complete" THEN { "ok", "ioerror" } ELSE { "ok" }

WriteOutcomes == { "ok", "open_fails", "write_fails" }

\* The text json.dump writes for a float and what json.load reads back from
\* it: float.__repr__ (NaN, Infinity and -Infinity for the non-finite ones,
\* allowed by default), a whole float as its digits followed by ".0". The
\* floats of a ledger are whole here; a fraction is written as numerator
\* "/" denominator, standing for its shortest repr.
DigitChars == << "0", "1", "2", "3", "4", "5", "6", "7", "8", "9" >>

RECURSIVE Decimal(_)
Decimal(n) ==
    IF n < Len(DigitChars) THEN << DigitChars[n + 1] >>
    ELSE Decimal(n \div Len(DigitChars)) \o << DigitChars[(n % Len(DigitChars)) + 1] >>

DigitValue(c) == (CHOOSE i \in 1..Len(DigitChars) : DigitChars[i] = c) - 1

RECURSIVE ParseDecimal(_)
ParseDecimal(text) ==
    IF text = << >> THEN 0
    ELSE Len(DigitChars) * ParseDecimal(SubSeq(text, 1, Len(text) - 1))
             + DigitValue(text[Len(text)])

NaNText == << "N", "a", "N" >>

InfinityText == << "I", "n", "f", "i", "n", "i", "t", "y" >>

float_repr(x) ==
    IF IsNaN(x) THEN NaNText
    ELSE IF x.k = "inf"
         THEN (IF x.n < 0 THEN << "-" >> ELSE << >>) \o InfinityText
    ELSE (IF x.n < 0 THEN << "-" >> ELSE << >>)
             \o Decimal(Abs(x.n))
             \o (IF x.d = 1 THEN << ".", "0" >> ELSE << "/" >> \o Decimal(x.d))

\* json.load of a number token.
parse_float(text) ==
    IF text = NaNText THEN NaN
    ELSE IF text = InfinityText THEN Inf(1)
    ELSE IF text = << "-" >> \o InfinityText THEN Inf(-1)
    ELSE LET neg == text[1] = "-"
             body == IF neg THEN Tail(text) ELSE text
             sep == CHOOSE i \in 1..Len(body) : body[i] \in { ".", "/" }
             whole == ParseDecimal(SubSeq(body, 1, sep - 1))
             rest == SubSeq(body, sep + 1, Len(body))
         IN  IF body[sep] = "."
             THEN Flt(IF neg THEN -whole ELSE whole)
             ELSE Num(IF neg THEN -whole ELSE whole, ParseDecimal(rest))

\* json.dump(data, f, indent=2, ensure_ascii=False): the document written,
\* object by object; strings are written as they are (none of the
\* characters here needs an escape), floats as their repr, and a key the
\* dict does not have (last_modified before an edit) is not written.
json_dump(data) ==
    [transactions |->
         [id \in DOMAIN data.transactions |->
              [data.transactions[id] EXCEPT !.amount = float_repr(@),
                                            !.qty = float_repr(@)]],
     last_updated |-> data.last_updated]

\* A loader that leaves the number tokens as text.
json_load_keeping_text(doc) == doc

\* json.load(f): the dict a document parses to.
json_load(doc) ==
    [transactions |->
         [id \in DOMAIN doc.transactions |->
              [doc.transactions[id] EXCEPT !.amount = parse_float(@),
                                           !.qty = parse_float(@)]],
     last_updated |-> doc.last_updated]

\* PortfolioData.load_data: a missing file is an empty ledger; a file that
\* cannot be read or parsed is reported and is an empty ledger as well.
load_data(f, rd) ==
    IF f.state = "absent"
    THEN [transactions |-> EmptyLedger, failed |-> FALSE]
    ELSE IF rd = "ioerror" \/ f.state # "complete"
         THEN [transactions |-> EmptyLedger, failed |-> TRUE]
         ELSE [transactions |-> f.data.transactions, failed |-> FALSE]

\* PortfolioData.__init__: an instance is its ledger and its data file.
PortfolioData(f, rd) ==
    [transactions |-> load_data(f, rd).transactions, file |-> f]

\* PortfolioData.save_data: open(..., 'w') truncates the file, json.dump then
\* writes the document piece by piece; an IOError becomes PortfolioError. A
\* complete file is held as what json.load reads from the text written.
save_data(self, t, wr) ==
    LET data == [transactions |-> self.transactions, last_updated |-> t]
        f == CASE wr = "ok" -> FileComplete(json_load(json_dump(data)))
               [] wr = "open_fails" -> self.file
               [] wr = "write_fails" -> FileTruncated
    IN  [self |-> [self EXCEPT !.file = f], raised |-> wr # "ok"]

\* PortfolioData.add_transaction
add_transaction(self, uuid4, symbol, platform, amount, qty, t, wr) ==
    LET transaction_id == uuid4
        transaction ==
            [id |-> transaction_id,
             symbol |-> Upper(symbol),
             platform |-> Lower(platform),
             amount |-> amount,
             qty |-> qty,
             timestamp |-> t,
             asset_class |-> classify_asset(symbol),
             last_modified |-> None]
        s == save_data(
                 [self EXCEPT !.transactions = Put(@, transaction_id, transaction)],
                 t, wr)
    IN  [self |-> s.self, ret |-> transaction_id, raised |-> s.raised]

\* PortfolioData.get_transaction: dict.get
get_transaction(self, transaction_id) ==
    IF transaction_id \in DOMAIN self.transactions
    THEN Some(self.transactions[transaction_id]) ELSE None

\* update_transaction with the save and the stamp moved before the lookup:
\* an unknown identifier still returns False, but the file is rewritten.
update_transaction_saving_first(self, transaction_id, kwargs, t, wr) ==
    LET s == save_data(self, t, wr)
    IN  IF transaction_id \notin DOMAIN self.transactions
        THEN [self |-> s.self, ret |-> FALSE, raised |-> s.raised]
        ELSE [self |-> s.self, ret |-> TRUE, raised |-> s.raised]

\* update_transaction without the re-derivation of the asset class.
update_transaction_keeping_class(self, transaction_id, kwargs, t, wr) ==
    IF transaction_id \notin DOMAIN self.transactions
    THEN [self |-> self, ret |-> FALSE, raised |-> FALSE]
    ELSE LET old == self.transactions[transaction_id]
             transaction ==
                 [old EXCEPT
                    !.symbol = IF kwargs.symbol # None THEN kwargs.symbol[1] ELSE @,
                    !.platform = IF kwargs.platform # None THEN kwargs.platform[1] ELSE @,
                    !.amount = IF kwargs.amount # None THEN kwargs.amount[1] ELSE @,
                    !.qty = IF kwargs.qty # None THEN kwargs.qty[1] ELSE @,
                    !.last_modified = Some(t)]
             s == save_data(
                      [self EXCEPT !.transactions[transaction_id] = transaction],
                      t, wr)
         IN  [self |-> s.self, ret |-> TRUE, raised |-> s.raised]

\* update_transaction that also stamps the creation timestamp.
update_transaction_restamping(self, transaction_id, kwargs, t, wr) ==
    IF transaction_id \notin DOMAIN self.transactions
    THEN [self |-> self, ret |-> FALSE, raised |-> FALSE]
    ELSE LET old == self.transactions[transaction_id]
             transaction ==
                 [old EXCEPT
                    !.symbol = IF kwargs.symbol # None THEN kwargs.symbol[1] ELSE @,
                    !.asset_class = IF kwargs.symbol # None
                                    THEN classify_asset(kwargs.symbol[1]) ELSE @,
                    !.platform = IF kwargs.platform # None THEN kwargs.platform[1] ELSE @,
                    !.amount = IF kwargs.amount # None THEN kwargs.amount[1] ELSE @,
                    !.qty = IF kwargs.qty # None THEN kwargs.qty[1] ELSE @,
                    !.timestamp = t,
                    !.last_modified = Some(t)]
             s == save_data(
                      [self EXCEPT !.transactions[transaction_id] = transaction],
                      t, wr)
         IN  [self |-> s.self, ret |-> TRUE, raised |-> s.raised]

\* PortfolioData.update_transaction; kwargs has the four keys, each None
\* (not passed) or Some(value).
update_transaction(self, transaction_id, kwargs, t, wr) ==
    IF transaction_id \notin DOMAIN self.transactions
    THEN [self |-> self, ret |-> FALSE, raised |-> FALSE]
    ELSE LET old == self.transactions[transaction_id]
             transaction ==
                 [old EXCEPT
                    !.symbol = IF kwargs.symbol # None THEN kwargs.symbol[1] ELSE @,
                    !.asset_class = IF kwargs.symbol # None
                                    THEN classify_asset(kwargs.symbol[1]) ELSE @,
                    !.platform = IF kwargs.platform # None THEN kwargs.platform[1] ELSE @,
                    !.amount = IF kwargs.amount # None THEN kwargs.amount[1] ELSE @,
                    !.qty = IF kwargs.qty # None THEN kwargs.qty[1] ELSE @,
                    !.last_modified = Some(t)]
             s == save_data(
                      [self EXCEPT !.transactions[transaction_id] = transaction],
                      t, wr)
         IN  [self |-> s.self, ret |-> TRUE, raised |-> s.raised]

\* delete_transaction without the save: the file keeps the transaction.
delete_transaction_not_saving(self, transaction_id, t, wr) ==
    IF transaction_id \in DOMAIN self.transactions
    THEN [self |-> [self EXCEPT !.transactions = Del(@, transaction_id)],
          ret |-> TRUE, raised |-> FALSE]
    ELSE [self |-> self, ret |-> FALSE, raised |-> FALSE]

\* PortfolioData.delete_transaction
delete_transaction(self, transaction_id, t, wr) ==
    IF transaction_id \in DOMAIN self.transactions
    THEN LET s == save_data(
                      [self EXCEPT !.transactions = Del(@, transaction_id)], t, wr)
         IN  [self |-> s.self, ret |-> TRUE, raised |-> s.raised]
    ELSE [self |-> self, ret |-> FALSE, raised |-> FALSE]

\* PortfolioData.to_dataframe: one row per transaction.
to_dataframe(self) ==
    LET ids == SetToSeq(DOMAIN self.transactions)
    IN  [i \in 1..Len(ids) |->
            LET transaction == self.transactions[ids[i]]
            IN  [id |-> transaction.id,
                 timestamp |-> transaction.timestamp,
                 symbol |-> transaction.symbol,
                 platform |-> transaction.platform,
                 amount |-> transaction.amount,
                 qty |-> transaction.qty,
                 asset_class |-> transaction.asset_class]]

\* ------------------------------------------------- portfolio_cli.py: report

\* What one call of a price adapter can do: raise (None) or return a price.
PriceInputs == { 4 }

FetchOutcomes == { None } \cup { Some([k |-> "num", n |-> p, d |-> 1]) : p \in PriceInputs }

\* The aggregation "first" in place of "sum": the first value of the group.
GroupByFirst(values) ==
    IF values = << >> THEN Flt(0) ELSE Head(values)

\* pandas' groupby(...).sum(): the sum of the values that are not nan
\* (skipna), 0.0 when there is none.
RECURSIVE GroupBySum(_)
GroupBySum(values) ==
    IF values = << >> THEN Flt(0)
    ELSE IF IsNaN(Head(values)) THEN GroupBySum(Tail(values))
    ELSE FAdd(Head(values), GroupBySum(Tail(values)))

\* The distinct elements of a sequence in the order of their first
\* appearance.
RECURSIVE AppearanceOrder(_)
AppearanceOrder(seq) ==
    IF seq = << >> THEN << >>
    ELSE << Head(seq) >>
             \o AppearanceOrder(SelectSeq(Tail(seq), LAMBDA k : k # Head(seq)))

\* Step 1 with groupby(..., sort=False): the groups in the order in which
\* their keys first appear in the frame.
GroupByPlatformSymbolUnsorted(df) ==
    LET keys == AppearanceOrder([i \in 1..Len(df) |-> << df[i].platform, df[i].symbol >>])
    IN  [j \in 1..Len(keys) |->
            LET g == SelectSeq(df, LAMBDA r : << r.platform, r.symbol >> = keys[j])
                total_qty == GroupBySum([i \in 1..Len(g) |-> g[i].qty])
                total_cost == GroupBySum([i \in 1..Len(g) |-> g[i].amount])
            IN  [platform |-> keys[j][1],
                 symbol |-> keys[j][2],
                 total_qty |-> total_qty,
                 total_cost |-> total_cost,
                 avg_cost |-> FDiv(total_cost, total_qty)]]

\* Step 1: df.groupby(["platform", "symbol"]) with the sums of qty and
\* amount and the average cost, one row per key in ascending key order.
GroupByPlatformSymbol(df) ==
    LET keys == SortKeys({ << df[i].platform, df[i].symbol >> : i \in 1..Len(df) })
    IN  [j \in 1..Len(keys) |->
            LET g == SelectSeq(df, LAMBDA r : << r.platform, r.symbol >> = keys[j])
                total_qty == GroupBySum([i \in 1..Len(g) |-> g[i].qty])
                total_cost == GroupBySum([i \in 1..Len(g) |-> g[i].amount])
            IN  [platform |-> keys[j][1],
                 symbol |-> keys[j][2],
                 total_qty |-> total_qty,
                 total_cost |-> total_cost,
                 avg_cost |-> FDiv(total_cost, total_qty)]]

\* The loop of step 2 with the adapter call outside the try block: the first
\* failing fetch ends the loop and the report.
FetchLoopNoCatch(grouped, px, mapper) ==
    LET stops == { i \in 1..Len(grouped) :
                     \/ grouped[i].platform \notin mapper
                     \/ px[<< grouped[i].platform, grouped[i].symbol >>] = None }
        last == IF stops = {} THEN Len(grouped)
                ELSE CHOOSE i \in stops : \A j \in stops : i <= j
        done == IF stops = {} THEN last
                ELSE IF grouped[last].platform \in mapper THEN last ELSE last - 1
        calls == [i \in 1..done |-> << grouped[i].platform, grouped[i].symbol >>]
    IN  [current_prices |->
             [i \in 1..done |-> IF px[calls[i]] = None THEN NaN ELSE px[calls[i]][1]],
         calls |-> calls,
         warnings |-> << >>,
         raised |-> stops # {}]

\* The loop of step 2 recording 0.0 instead of nan for a failed fetch.
FetchLoopZeroOnFailure(grouped, px, mapper) ==
    LET unmapped == { i \in 1..Len(grouped) : grouped[i].platform \notin mapper }
        last == IF unmapped = {} THEN Len(grouped)
                ELSE (CHOOSE i \in unmapped : \A j \in unmapped : i <= j) - 1
        calls == [i \in 1..last |-> << grouped[i].platform, grouped[i].symbol >>]
    IN  [current_prices |->
             [i \in 1..last |-> IF px[calls[i]] = None THEN Flt(0) ELSE px[calls[i]][1]],
         calls |-> calls,
         warnings |-> SelectSeq(calls, LAMBDA key : px[key] = None),
         raised |-> unmapped # {}]

\* Step 2, the loop over the grouped rows: the adapter is looked up outside
\* the try block, so the first row whose platform has no adapter ends the
\* loop and the report with a KeyError; the call itself is inside the try
\* block, and any exception gives nan and a printed warning.
FetchLoop(grouped, px, mapper) ==
    LET unmapped == { i \in 1..Len(grouped) : grouped[i].platform \notin mapper }
        last == IF unmapped = {} THEN Len(grouped)
                ELSE (CHOOSE i \in unmapped : \A j \in unmapped : i <= j) - 1
        calls == [i \in 1..last |-> << grouped[i].platform, grouped[i].symbol >>]
    IN  [current_prices |->
             [i \in 1..last |-> IF px[calls[i]] = None THEN NaN ELSE px[calls[i]][1]],
         calls |-> calls,
         warnings |-> SelectSeq(calls, LAMBDA key : px[key] = None),
         raised |-> unmapped # {}]

\* The derived columns with the PnL percent taken relative to the market
\* value instead of the cost.
PricedRowPctOfMarketValue(row, live_price) ==
    LET market_value == FMul(live_price, row.total_qty)
        pnl == FSub(market_value, row.total_cost)
    IN  [platform |-> row.platform,
         symbol |-> row.symbol,
         total_qty |-> row.total_qty,
         total_cost |-> row.total_cost,
         avg_cost |-> row.avg_cost,
         live_price |-> live_price,
         market_value |-> market_value,
         cost_value |-> row.total_cost,
         pnl_usd |-> pnl,
         pnl_pct |-> FMul(FDiv(pnl, market_value), Flt(100)),
         asset_class |-> classify_asset(row.symbol)]

\* Step 2, the derived columns of one grouped row.
PricedRow(row, live_price) ==
    LET market_value == FMul(live_price, row.total_qty)
        pnl == FSub(market_value, row.total_cost)
    IN  [platform |-> row.platform,
         symbol |-> row.symbol,
         total_qty |-> row.total_qty,
         total_cost |-> row.total_cost,
         avg_cost |-> row.avg_cost,
         live_price |-> live_price,
         market_value |-> market_value,
         cost_value |-> row.total_cost,
         pnl_usd |-> pnl,
         pnl_pct |-> FMul(FDiv(pnl, row.total_cost), Flt(100)),
         asset_class |-> classify_asset(row.symbol)]

\* Step 3: df.groupby("symbol"), the cross-platform average cost.
GroupBySymbol(df) ==
    LET keys == SortKeys({ << df[i].symbol >> : i \in 1..Len(df) })
    IN  [j \in 1..Len(keys) |->
            LET g == SelectSeq(df, LAMBDA r : r.symbol = keys[j][1])
                total_qty == GroupBySum([i \in 1..Len(g) |-> g[i].qty])
                total_cost == GroupBySum([i \in 1..Len(g) |-> g[i].amount])
            IN  [symbol |-> keys[j][1],
                 total_qty |-> total_qty,
                 total_cost |-> total_cost,
                 avg_cost_all_platform |-> FDiv(total_cost, total_qty)]]

\* The asset-class summary with total_cost summed from the market_value
\* column.
GroupByAssetClassCostFromMarketValue(grouped) ==
    LET keys == SortKeys({ << grouped[i].asset_class >> : i \in 1..Len(grouped) })
    IN  [j \in 1..Len(keys) |->
            LET g == SelectSeq(grouped, LAMBDA r : r.asset_class = keys[j][1])
                total_cost == GroupBySum([i \in 1..Len(g) |-> g[i].market_value])
                market_value == GroupBySum([i \in 1..Len(g) |-> g[i].market_value])
                pnl == FSub(market_value, total_cost)
            IN  [asset_class |-> keys[j][1],
                 total_cost |-> total_cost,
                 market_value |-> market_value,
                 pnl_usd |-> pnl,
                 pnl_pct |-> FMul(FDiv(pnl, total_cost), Flt(100))]]

\* Step 4: grouped.groupby("asset_class") with the sums of cost_value and
\* market_value, then the aggregate PnL.
GroupByAssetClass(grouped) ==
    LET keys == SortKeys({ << grouped[i].asset_class >> : i \in 1..Len(grouped) })
    IN  [j \in 1..Len(keys) |->
            LET g == SelectSeq(grouped, LAMBDA r : r.asset_class = keys[j][1])
                total_cost == GroupBySum([i \in 1..Len(g) |-> g[i].cost_value])
                market_value == GroupBySum([i \in 1..Len(g) |-> g[i].market_value])
                pnl == FSub(market_value, total_cost)
            IN  [asset_class |-> keys[j][1],
                 total_cost |-> total_cost,
                 market_value |-> market_value,
                 pnl_usd |-> pnl,
                 pnl_pct |-> FMul(FDiv(pnl, total_cost), Flt(100))]]

\* The result of a report run: the three tables, the adapter calls made (in
\* order), the warnings printed, and whether an exception left the function.
ReportResult(grouped, coin_lvl, asset_summary, calls, warnings, raised) ==
    [grouped |-> grouped, coin_lvl |-> coin_lvl, asset_summary |-> asset_summary,
     calls |-> calls, warnings |-> warnings, raised |-> raised]

\* The key of a grouped row.
RowKey(row) == << row.platform, row.symbol >>

\* The platform x symbol keys of a ledger, the domain of a price source.
PairsOf(transactions) ==
    { << transactions[id].platform, transactions[id].symbol >> :
        id \in DOMAIN transactions }

\* generate_report with the loop of step 2 run over the rows of df, one
\* adapter call per transaction instead of one per group.
generate_report_fetching_per_row(self, px) ==
    LET df == to_dataframe(self)
    IN  IF df = << >>
        THEN ReportResult(<< >>, << >>, << >>, << >>, << >>, FALSE)
        ELSE LET grouped == GroupByPlatformSymbol(df)
                 f == FetchLoop(df, px, MAPPER)
                 priced == [i \in 1..Len(grouped) |->
                               PricedRow(grouped[i], f.current_prices[i])]
             IN  ReportResult(priced, GroupBySymbol(df), GroupByAssetClass(priced),
                              f.calls, f.warnings, f.raised)

\* generate_report without the df.empty short-circuit: the row-wise apply on
\* an empty frame gives no column, and assigning it raises.
generate_report_without_empty_check(self, px) ==
    LET df == to_dataframe(self)
        grouped == GroupByPlatformSymbol(df)
        f == FetchLoop(grouped, px, MAPPER)
        priced == [i \in 1..Len(grouped) |->
                      PricedRow(grouped[i], f.current_prices[i])]
    IN  IF df = << >> \/ f.raised
        THEN ReportResult(<< >>, << >>, << >>, f.calls, f.warnings, TRUE)
        ELSE ReportResult(priced, GroupBySymbol(df), GroupByAssetClass(priced),
                          f.calls, f.warnings, FALSE)

\* PortfolioReporter.generate_report
generate_report(self, px) ==
    LET df == to_dataframe(self)
    IN  IF df = << >>
        THEN ReportResult(<< >>, << >>, << >>, << >>, << >>, FALSE)
        ELSE LET grouped == GroupByPlatformSymbol(df)
                 f == FetchLoop(grouped, px, MAPPER)
             IN  IF f.raised
                 THEN ReportResult(<< >>, << >>, << >>, f.calls, f.warnings, TRUE)
                 ELSE LET priced == [i \in 1..Len(grouped) |->
                                        PricedRow(grouped[i], f.current_prices[i])]
                      IN  ReportResult(priced, GroupBySymbol(df),
                                       GroupByAssetClass(priced),
                                       f.calls, f.warnings, FALSE)

\* A report that writes the per-unit cost of step 1 back into the amounts of
\* the ledger instead of a column of its own frame.
portfolio_data_with_unit_cost(self, px) ==
    [self EXCEPT !.transactions =
        [id \in DOMAIN @ |-> [@[id] EXCEPT !.amount = FDiv(@, self.transactions[id].qty)]]]

\* PortfolioReporter.portfolio_data after generate_report: the function
\* assigns only to columns of df (a frame to_dataframe builds from copies of
\* the fields) and of grouped, coin_lvl and asset_summary, and calls neither
\* save_data nor any other method of the instance.
portfolio_data(self, px) == self

\* ------------------------------------------------------------------- state

VARIABLES
    file,          \* portfolio_data.json
    now,           \* the clock: the number of readings of datetime.now() so far
    transactions,  \* the ledger of the last command's PortfolioData at its end
    cmd,           \* the last command: its name, its --id, whether loading failed
    result,        \* how the last command ended
    report,        \* what the last report command's generate_report gave
    prices,        \* the price source of the last report: key -> fetch outcome
    venues,        \* what each venue did in the last report: key -> behaviour
    csv_file,      \* transactions.csv of the GUI
    gui_result,    \* how the last GUI handler ended
    gui_report,    \* the tables shown; raised when the last refresh failed
    gui_now,       \* the clock of the GUI program
    classify_arg,  \* the argument of a call of classify_asset
    classify_ret,  \* what the call returned; None before it returns
    adapter_arg,   \* the symbol a price adapter is called with
    adapter_ret,   \* the adapter called and the instrument it requested; None before
    procs,         \* the command-line processes running at the same time
    tasks,         \* the background tasks of refresh_data, in the order started
    callbacks,     \* the callbacks posted with root.after(0, ...), not yet run
    gui_list       \* the rows the transaction list of the GUI shows

cli_vars == << file, now, transactions, cmd, result, report, prices, venues >>

gui_vars == << csv_file, gui_result, gui_report, gui_now >>

fn_vars == << classify_arg, classify_ret, adapter_arg, adapter_ret >>

conc_vars == << procs, tasks, callbacks, gui_list >>

vars == << file, now, transactions, cmd, result, report, prices, venues,
           csv_file, gui_result, gui_report, gui_now,
           classify_arg, classify_ret, adapter_arg, adapter_ret,
           procs, tasks, callbacks, gui_list >>

\* The processes of a concurrent run, and a process that has not started.
Procs == { "p1", "p2" }

NotStarted ==
    [pc |-> "start",
     command |-> [name |-> "none", id |-> "",
                  updates |-> [symbol |-> None, platform |-> None,
                               amount |-> None, qty |-> None]],
     transactions |-> EmptyLedger,
     ret |-> FALSE]

NoReport == ReportResult(<< >>, << >>, << >>, << >>, << >>, FALSE)

Command(name, id, load_failed) ==
    [name |-> name, id |-> id, load_failed |-> load_failed]

Init ==
    /\ file = FileAbsent
    /\ now = 0
    /\ transactions = EmptyLedger
    /\ cmd = Command("none", "", FALSE)
    /\ result = "none"
    /\ report = NoReport
    /\ prices = << >>
    /\ venues = << >>
    /\ csv_file = [exists |-> FALSE, rows |-> << >>]
    /\ gui_result = "none"
    /\ gui_report = NoReport
    /\ gui_now = 0
    /\ classify_arg = << >>
    /\ classify_ret = None
    /\ adapter_arg = << >>
    /\ adapter_ret = None
    /\ procs = [p \in Procs |-> NotStarted]
    /\ tasks = << >>
    /\ callbacks = << >>
    /\ gui_list = << >>

\* ------------------------------------------------ portfolio_cli.py: commands

\* add_transaction(args): portfolio add --symbol --platform --amount --qty.
\* argparse restricts --platform to the keys of MAPPER and converts --amount
\* and --qty with float(); nothing else is checked.
AddCommand ==
    /\ now < MaxTime
    /\ \E symbol \in SymbolInputs, platform \in PlatformInputs \cap MAPPER,
          amount \in AmountInputs, qty \in QtyInputs,
          uuid4 \in UuidValues, rd \in ReadOutcomes(file), wr \in WriteOutcomes :
           \E r \in { add_transaction(PortfolioData(file, rd), uuid4, symbol,
                                      platform, Flt(amount), Flt(qty), now + 1, wr) } :
               /\ file' = r.self.file
               /\ transactions' = r.self.transactions
               /\ cmd' = Command("add", r.ret, load_data(file, rd).failed)
               /\ result' = IF r.raised THEN "error" ELSE "added"
    /\ now' = now + 1
    /\ report' = NoReport
    /\ prices' = << >>
    /\ venues' = << >>
    /\ UNCHANGED << gui_vars, fn_vars, conc_vars >>

\* The optional arguments of portfolio edit, and the values tried for them.
EditSymbolInputs == { btcusd, AAPL }

EditPlatformInputs == { stock_etf }

EditAmountInputs == { -1 }

EditQtyInputs == { 0 }

OptionalInputs(S) == { None } \cup { Some(v) : v \in S }

EditInputs ==
    [symbol : OptionalInputs(EditSymbolInputs),
     platform : OptionalInputs(EditPlatformInputs \cap MAPPER),
     amount : OptionalInputs({ Flt(a) : a \in EditAmountInputs }),
     qty : OptionalInputs({ Flt(q) : q \in EditQtyInputs })]

NoUpdates == [symbol |-> None, platform |-> None, amount |-> None, qty |-> None]

\* edit_transaction(args): portfolio edit --id [--symbol] [--platform]
\* [--amount] [--qty].
EditCommand ==
    /\ report' = NoReport
    /\ prices' = << >>
    /\ venues' = << >>
    /\ UNCHANGED << gui_vars, fn_vars, conc_vars >>
    /\ \E id \in UuidValues, rd \in ReadOutcomes(file) :
           \E portfolio \in { PortfolioData(file, rd) } :
               /\ cmd' = Command("edit", id, load_data(file, rd).failed)
               /\ IF get_transaction(portfolio, id) = None
                  THEN /\ result' = "not_found"
                       /\ transactions' = portfolio.transactions
                       /\ UNCHANGED << file, now >>
                  ELSE \/ /\ result' = "no_changes"
                          /\ transactions' = portfolio.transactions
                          /\ UNCHANGED << file, now >>
                       \/ /\ now < MaxTime
                          /\ now' = now + 1
                          /\ \E updates \in EditInputs \ { NoUpdates },
                                wr \in WriteOutcomes :
                                 \E r \in { update_transaction(
                                                portfolio, id, updates, now + 1, wr) } :
                                     /\ result' = IF r.raised THEN "error"
                                                  ELSE IF r.ret THEN "updated"
                                                  ELSE "failed"
                                     /\ transactions' = r.self.transactions
                                     /\ file' = r.self.file

\* delete_transaction(args): portfolio delete --id [--force]; without
\* --force the answer to the prompt may cancel the deletion.
DeleteCommand ==
    /\ report' = NoReport
    /\ prices' = << >>
    /\ venues' = << >>
    /\ UNCHANGED << gui_vars, fn_vars, conc_vars >>
    /\ \E id \in UuidValues, rd \in ReadOutcomes(file) :
           \E portfolio \in { PortfolioData(file, rd) } :
               /\ cmd' = Command("delete", id, load_data(file, rd).failed)
               /\ IF get_transaction(portfolio, id) = None
                  THEN /\ result' = "not_found"
                       /\ transactions' = portfolio.transactions
                       /\ UNCHANGED << file, now >>
                  ELSE \/ /\ result' = "cancelled"
                          /\ transactions' = portfolio.transactions
                          /\ UNCHANGED << file, now >>
                       \/ /\ now < MaxTime
                          /\ now' = now + 1
                          /\ \E wr \in WriteOutcomes :
                                 \E r \in { delete_transaction(
                                                portfolio, id, now + 1, wr) } :
                                     /\ result' = IF r.raised THEN "error"
                                                  ELSE IF r.ret THEN "deleted"
                                                  ELSE "failed"
                                     /\ transactions' = r.self.transactions
                                     /\ file' = r.self.file

\* generate_report(args): portfolio report. The price source is what each
\* adapter call would do for each platform x symbol pair of the ledger.
ReportCommand ==
    /\ UNCHANGED now
    /\ UNCHANGED << gui_vars, fn_vars, conc_vars >>
    /\ \E rd \in ReadOutcomes(file) :
           \E portfolio \in { PortfolioData(file, rd) } :
               \E px \in [PairsOf(portfolio.transactions) -> FetchOutcomes] :
                   /\ report' = generate_report(portfolio, px)
                   /\ prices' = px
                   /\ venues' = << >>
                   /\ transactions' = portfolio_data(portfolio, px).transactions
                   /\ file' = portfolio_data(portfolio, px).file
                   /\ cmd' = Command("report", "", load_data(file, rd).failed)
                   /\ result' = IF report'.raised THEN "error" ELSE "report"

\* ------------------------------------------------------- portfolio_gui.py

\* PriceFetcher.MAPPER of portfolio_gui.py.
GuiMAPPER == { binance, okx, coinbase, fidelity }

\* What can be typed into the entry fields: the platform box is an editable
\* combobox, the amount and quantity fields are free text (None stands for
\* text float() rejects).
GuiSymbolInputs == { << >>, btcusd, AAPL }

GuiPlatformInputs == { << >>, binance, kraken }

GuiNumberInputs == { None, Some(Flt(-1)), Some(Flt(0)), Some(Flt(3)) }

\* append_tx: one more row at the end of transactions.csv.
append_tx(f, symbol, platform, amount, qty, t) ==
    [exists |-> TRUE,
     rows |-> Append(f.rows, [time |-> t,
                              symbol |-> Upper(symbol),
                              platform |-> Lower(platform),
                              amount |-> amount,
                              qty |-> qty])]

\* read_tx: the rows of the file, none when there is no file.
read_tx(f) == IF ~f.exists THEN << >> ELSE f.rows

\* save_tx: the file rewritten with the rows of df.
save_tx(df) == [exists |-> TRUE, rows |-> df]

\* delete_tx: ok is what it returns.
delete_tx(f, index) ==
    LET df == read_tx(f)
    IN  IF 0 <= index /\ index < Len(df)
        THEN [file |-> save_tx([i \in 1..(Len(df) - 1) |->
                                   IF i <= index THEN df[i] ELSE df[i + 1]]),
              ok |-> TRUE]
        ELSE [file |-> f, ok |-> FALSE]

\* update_tx: the row at index rewritten in place (its time is kept); ok is
\* what it returns.
update_tx(f, index, symbol, platform, amount, qty) ==
    LET df == read_tx(f)
    IN  IF 0 <= index /\ index < Len(df)
        THEN [file |-> save_tx([df EXCEPT ![index + 1] =
                                   [@ EXCEPT !.symbol = Upper(symbol),
                                             !.platform = Lower(platform),
                                             !.amount = amount,
                                             !.qty = qty]]),
              ok |-> TRUE]
        ELSE [file |-> f, ok |-> FALSE]

\* build_portfolio_data: (None, None, None) for an empty frame, shown as
\* three empty tables; otherwise the same four steps as generate_report.
build_portfolio_data(df, px) ==
    IF df = << >>
    THEN ReportResult(<< >>, << >>, << >>, << >>, << >>, FALSE)
    ELSE LET grouped == GroupByPlatformSymbol(df)
             f == FetchLoop(grouped, px, GuiMAPPER)
         IN  IF f.raised
             THEN ReportResult(<< >>, << >>, << >>, f.calls, << >>, TRUE)
             ELSE LET priced == [i \in 1..Len(grouped) |->
                                    PricedRow(grouped[i], f.current_prices[i])]
                  IN  ReportResult(priced, GroupBySymbol(df),
                                   GroupByAssetClass(priced), f.calls, << >>, FALSE)

\* The platform x symbol keys of the rows of a frame.
PairsOfFrame(df) == { << df[i].platform, df[i].symbol >> : i \in 1..Len(df) }

\* PortfolioApp.refresh_data: the background task reads the file and builds
\* the report; an exception in it is shown in an error box and the tables
\* keep what they showed.
refresh_data(f, shown, px) ==
    LET r == build_portfolio_data(read_tx(f), px)
    IN  IF r.raised THEN [shown EXCEPT !.raised = TRUE] ELSE r

\* PortfolioApp.add_transaction: the Add button.
GuiAddTransaction ==
    /\ UNCHANGED << cli_vars, fn_vars, conc_vars >>
    /\ \E symbol \in GuiSymbolInputs, platform \in GuiPlatformInputs,
          amount \in GuiNumberInputs, qty \in GuiNumberInputs :
           IF amount = None \/ qty = None
           THEN /\ gui_result' = "invalid_number"
                /\ UNCHANGED << csv_file, gui_report, gui_now >>
           ELSE IF symbol = << >> \/ platform = << >>
           THEN /\ gui_result' = "missing_field"
                /\ UNCHANGED << csv_file, gui_report, gui_now >>
           ELSE IF ~FPositive(amount[1]) \/ ~FPositive(qty[1])
           THEN /\ gui_result' = "not_positive"
                /\ UNCHANGED << csv_file, gui_report, gui_now >>
           ELSE /\ gui_now < MaxTime
                /\ gui_now' = gui_now + 1
                /\ csv_file' = append_tx(csv_file, symbol, platform,
                                         amount[1], qty[1], gui_now + 1)
                /\ gui_result' = "added"
                /\ \E px \in [PairsOfFrame(read_tx(csv_file')) -> FetchOutcomes] :
                       gui_report' = refresh_data(csv_file', gui_report, px)

\* PortfolioApp.edit_transaction: the Edit button on the selected row, with
\* what TransactionDialog.save accepts or rejects.
GuiEditTransaction ==
    /\ UNCHANGED << cli_vars, fn_vars, conc_vars >>
    /\ UNCHANGED gui_now
    /\ \E index \in 0..(Len(read_tx(csv_file)) - 1),
          symbol \in GuiSymbolInputs, platform \in GuiPlatformInputs,
          amount \in GuiNumberInputs, qty \in GuiNumberInputs :
           IF amount = None \/ qty = None
           THEN /\ gui_result' = "invalid_number"
                /\ UNCHANGED << csv_file, gui_report >>
           ELSE IF symbol = << >> \/ platform = << >>
           THEN /\ gui_result' = "missing_field"
                /\ UNCHANGED << csv_file, gui_report >>
           ELSE IF ~FPositive(amount[1]) \/ ~FPositive(qty[1])
           THEN /\ gui_result' = "not_positive"
                /\ UNCHANGED << csv_file, gui_report >>
           ELSE \E u \in { update_tx(csv_file, index, symbol, platform,
                                     amount[1], qty[1]) } :
                    /\ csv_file' = u.file
                    /\ gui_result' = "updated"
                    /\ \E px \in [PairsOfFrame(read_tx(csv_file')) -> FetchOutcomes] :
                           gui_report' = refresh_data(csv_file', gui_report, px)

\* PortfolioApp.delete_transaction: the Delete button on the selected row,
\* confirmed.
GuiDeleteTransaction ==
    /\ UNCHANGED << cli_vars, fn_vars, conc_vars >>
    /\ UNCHANGED gui_now
    /\ \E index \in 0..(Len(read_tx(csv_file)) - 1) :
           \E d \in { delete_tx(csv_file, index) } :
               /\ csv_file' = d.file
               /\ gui_result' = "deleted"
               /\ \E px \in [PairsOfFrame(read_tx(csv_file')) -> FetchOutcomes] :
                      gui_report' = refresh_data(csv_file', gui_report, px)

\* The Refresh button (and the refresh at start-up).
GuiRefresh ==
    /\ UNCHANGED << cli_vars, fn_vars, conc_vars >>
    /\ UNCHANGED << csv_file, gui_now >>
    /\ gui_result' = "refreshed"
    /\ \E px \in [PairsOfFrame(read_tx(csv_file)) -> FetchOutcomes] :
           gui_report' = refresh_data(csv_file, gui_report, px)

\* ---------------------------------------------------------- specifications

Next ==
    \/ AddCommand
    \/ EditCommand
    \/ DeleteCommand
    \/ ReportCommand

\* The command-line program.
Spec == Init /\ [][Next]_vars

GuiNext ==
    \/ GuiAddTransaction
    \/ GuiEditTransaction
    \/ GuiDeleteTransaction
    \/ GuiRefresh

\* The GUI program.
GuiSpec == Init /\ [][GuiNext]_vars

\* The characters and the symbols classify_asset is called with: every
\* string of at most MaxSymbolLen of the characters, and the symbols of the
\* command line.
ClassifyChars == { "U", "S", "D", "u", "s", "d", "X" }

ClassifyInputs ==
    UNION { [1..n -> ClassifyChars] : n \in 0..MaxSymbolLen }
        \cup { BTCUSD, btcusd, AAPL }

ClassifyInit ==
    /\ file = FileAbsent
    /\ now = 0
    /\ transactions = EmptyLedger
    /\ cmd = Command("none", "", FALSE)
    /\ result = "none"
    /\ report = NoReport
    /\ prices = << >>
    /\ venues = << >>
    /\ csv_file = [exists |-> FALSE, rows |-> << >>]
    /\ gui_result = "none"
    /\ gui_report = NoReport
    /\ gui_now = 0
    /\ classify_arg \in ClassifyInputs
    /\ classify_ret = None
    /\ adapter_arg = << >>
    /\ adapter_ret = None
    /\ procs = [p \in Procs |-> NotStarted]
    /\ tasks = << >>
    /\ callbacks = << >>
    /\ gui_list = << >>

\* One call of classify_asset.
ClassifyCall ==
    /\ classify_ret = None
    /\ classify_ret' = Some(classify_asset(classify_arg))
    /\ UNCHANGED << cli_vars, gui_vars, conc_vars, classify_arg, adapter_arg, adapter_ret >>

ClassifyNext == ClassifyCall

\* classify_asset as a function of its argument.
ClassifySpec == ClassifyInit /\ [][ClassifyNext]_vars

\* The characters and the symbols the OKX and Coinbase adapters are called
\* with: every string of at most MaxSymbolLen of the characters, and the
\* usual spellings of a pair.
AdapterChars == { "B", "t", "c", "-" }

BTC_USD == << "B", "T", "C", "-", "U", "S", "D" >>

AdapterInputs ==
    UNION { [1..n -> AdapterChars] : n \in 0..MaxSymbolLen }
        \cup { BTCUSD, btcusd, BTC_USD }

AdapterInit ==
    /\ file = FileAbsent
    /\ now = 0
    /\ transactions = EmptyLedger
    /\ cmd = Command("none", "", FALSE)
    /\ result = "none"
    /\ report = NoReport
    /\ prices = << >>
    /\ venues = << >>
    /\ csv_file = [exists |-> FALSE, rows |-> << >>]
    /\ gui_result = "none"
    /\ gui_report = NoReport
    /\ gui_now = 0
    /\ classify_arg = << >>
    /\ classify_ret = None
    /\ adapter_arg \in AdapterInputs
    /\ adapter_ret = None
    /\ procs = [p \in Procs |-> NotStarted]
    /\ tasks = << >>
    /\ callbacks = << >>
    /\ gui_list = << >>

\* One call of PriceFetcher.okx, up to its request.
OkxCall ==
    /\ adapter_ret = None
    /\ adapter_ret' = Some([venue |-> okx, instrument |-> okx_instId(adapter_arg)])
    /\ UNCHANGED << cli_vars, gui_vars, conc_vars, classify_arg, classify_ret, adapter_arg >>

\* One call of PriceFetcher.coinbase, up to its request.
CoinbaseCall ==
    /\ adapter_ret = None
    /\ adapter_ret' = Some([venue |-> coinbase,
                            instrument |-> coinbase_pair(adapter_arg)])
    /\ UNCHANGED << cli_vars, gui_vars, conc_vars, classify_arg, classify_ret, adapter_arg >>

AdapterNext == OkxCall \/ CoinbaseCall

\* The instrument the OKX and Coinbase adapters request as a function of
\* the symbol.
AdapterSpec == AdapterInit /\ [][AdapterNext]_vars

\* The timeout, in seconds, PriceFetcher.stooq passes to requests.get.
STOOQ_TIMEOUT == 15

\* The timeout each adapter passes to requests.get: stooq (stock_etf) passes
\* one; binance, okx and coinbase pass none, and requests then waits without
\* limit.
AdapterTimeout ==
    [platform \in MAPPER |->
        IF platform = stock_etf THEN Some(STOOQ_TIMEOUT) ELSE None]

\* What a venue does with a request: it answers, and the adapter returns a
\* price or raises; or it never answers.
VenueOutcomes ==
    { [responds |-> TRUE, outcome |-> o] : o \in FetchOutcomes }
        \cup { [responds |-> FALSE, outcome |-> None] }

\* requests.get in an adapter: with a timeout, a venue that never answers
\* makes it raise; without one the call never returns.
requests_get(platform, venue) ==
    IF venue.responds
    THEN [returns |-> TRUE, outcome |-> venue.outcome]
    ELSE IF AdapterTimeout[platform] # None
         THEN [returns |-> TRUE, outcome |-> None]
         ELSE [returns |-> FALSE, outcome |-> None]

\* generate_report(args) with venues that may never answer: the loop of step
\* 2 stays in the first adapter call that does not return, and the command
\* with it.
ReportUnderVenues ==
    /\ UNCHANGED now
    /\ UNCHANGED << gui_vars, fn_vars, conc_vars >>
    /\ \E rd \in ReadOutcomes(file) :
           \E portfolio \in { PortfolioData(file, rd) } :
               \E v \in [PairsOf(portfolio.transactions) -> VenueOutcomes] :
                   LET grouped == GroupByPlatformSymbol(to_dataframe(portfolio))
                       got == [key \in DOMAIN v |-> requests_get(key[1], v[key])]
                       stuck == { i \in 1..Len(grouped) :
                                    ~got[RowKey(grouped[i])].returns }
                       px == [key \in DOMAIN v |-> got[key].outcome]
                   IN  /\ venues' = v
                       /\ prices' = px
                       /\ cmd' = Command("report", "", load_data(file, rd).failed)
                       /\ transactions' = portfolio.transactions
                       /\ file' = portfolio.file
                       /\ IF stuck = {}
                          THEN /\ report' = generate_report(portfolio, px)
                               /\ result' = IF report'.raised THEN "error" ELSE "report"
                          ELSE LET last == CHOOSE i \in stuck : \A j \in stuck : i <= j
                                   done == FetchLoop(SubSeq(grouped, 1, last - 1),
                                                    px, MAPPER)
                               IN  /\ report' = ReportResult(<< >>, << >>, << >>,
                                                    Append(done.calls,
                                                           RowKey(grouped[last])),
                                                    done.warnings, FALSE)
                                   /\ result' = "blocked"

\* The data files earlier runs of the program can have left: none, or the
\* file saved by one or by two successful add commands (clock readings made
\* before the behaviour starts are numbered -1 and 0).
NewInstance == [transactions |-> EmptyLedger, file |-> FileAbsent]

AfterAdd(S, t) ==
    { add_transaction(PortfolioData(self.file, "ok"), uuid4, symbol, platform,
                      Flt(amount), Flt(qty), t, "ok").self :
        self \in S, uuid4 \in UuidValues, symbol \in SymbolInputs,
        platform \in PlatformInputs \cap MAPPER,
        amount \in AmountInputs, qty \in QtyInputs }

StoredFiles ==
    LET one == AfterAdd({ NewInstance }, -1)
        two == AfterAdd(one, 0)
    IN  { self.file : self \in { NewInstance } \cup one \cup two }

StoredInit ==
    /\ file \in StoredFiles
    /\ now = 0
    /\ transactions = EmptyLedger
    /\ cmd = Command("none", "", FALSE)
    /\ result = "none"
    /\ report = NoReport
    /\ prices = << >>
    /\ venues = << >>
    /\ csv_file = [exists |-> FALSE, rows |-> << >>]
    /\ gui_result = "none"
    /\ gui_report = NoReport
    /\ gui_now = 0
    /\ classify_arg = << >>
    /\ classify_ret = None
    /\ adapter_arg = << >>
    /\ adapter_ret = None
    /\ procs = [p \in Procs |-> NotStarted]
    /\ tasks = << >>
    /\ callbacks = << >>
    /\ gui_list = << >>

StoredNext ==
    \/ DeleteCommand
    \/ ReportCommand

\* The delete and report commands run on a data file of earlier runs.
StoredSpec == StoredInit /\ [][StoredNext]_vars

\* The data files of earlier runs whose adds were all on binance with a
\* positive amount and quantity.
EditFiles ==
    { f \in StoredFiles :
          \A id \in DOMAIN f.data.transactions :
              /\ f.data.transactions[id].platform = binance
              /\ FPositive(f.data.transactions[id].amount)
              /\ FPositive(f.data.transactions[id].qty) }

EditInit ==
    /\ file \in EditFiles
    /\ now = 0
    /\ transactions = EmptyLedger
    /\ cmd = Command("none", "", FALSE)
    /\ result = "none"
    /\ report = NoReport
    /\ prices = << >>
    /\ venues = << >>
    /\ csv_file = [exists |-> FALSE, rows |-> << >>]
    /\ gui_result = "none"
    /\ gui_report = NoReport
    /\ gui_now = 0
    /\ classify_arg = << >>
    /\ classify_ret = None
    /\ adapter_arg = << >>
    /\ adapter_ret = None
    /\ procs = [p \in Procs |-> NotStarted]
    /\ tasks = << >>
    /\ callbacks = << >>
    /\ gui_list = << >>

EditNext == EditCommand

\* The edit command run on a data file of earlier runs.
EditSpec == EditInit /\ [][EditNext]_vars

VenueNext == ReportUnderVenues

\* The report command on a data file of earlier runs, with venues that may
\* never answer.
VenueSpec == StoredInit /\ [][VenueNext]_vars

\* ------------------------------------------- concurrent command-line runs

\* The mutating commands two processes run at the same time: an add, an
\* edit of one field, a forced delete.
ProcEditInputs ==
    { [NoUpdates EXCEPT !.symbol = Some(btcusd)],
      [NoUpdates EXCEPT !.amount = Some(Flt(5))] }

ProcCommands ==
    { [name |-> "add", id |-> uuid4,
       updates |-> [symbol |-> Some(AAPL), platform |-> Some(binance),
                    amount |-> Some(Flt(3)), qty |-> Some(Flt(2))]] :
          uuid4 \in UuidValues }
    \cup { [name |-> "edit", id |-> id, updates |-> updates] :
              id \in UuidValues, updates \in ProcEditInputs }
    \cup { [name |-> "delete", id |-> id, updates |-> NoUpdates] :
              id \in UuidValues }

\* The data file is absent or was left by one add of an earlier run.
ConcurrentInit ==
    /\ file \in { self.file : self \in { NewInstance } \cup AfterAdd({ NewInstance }, -1) }
    /\ now = 0
    /\ transactions = EmptyLedger
    /\ cmd = Command("none", "", FALSE)
    /\ result = "none"
    /\ report = NoReport
    /\ prices = << >>
    /\ venues = << >>
    /\ csv_file = [exists |-> FALSE, rows |-> << >>]
    /\ gui_result = "none"
    /\ gui_report = NoReport
    /\ gui_now = 0
    /\ classify_arg = << >>
    /\ classify_ret = None
    /\ adapter_arg = << >>
    /\ adapter_ret = None
    /\ procs = [p \in Procs |-> NotStarted]
    /\ tasks = << >>
    /\ callbacks = << >>
    /\ gui_list = << >>

\* A process starts its command: portfolio = PortfolioData() loads the
\* ledger from the file as it is now.
ProcLoad(p) ==
    /\ procs[p].pc = "start"
    /\ \E command \in ProcCommands :
           procs' = [procs EXCEPT ![p] =
                        [pc |-> "loaded",
                         command |-> command,
                         transactions |-> PortfolioData(file, "ok").transactions,
                         ret |-> FALSE]]
    /\ UNCHANGED << cli_vars, gui_vars, fn_vars, tasks, callbacks, gui_list >>

\* The process changes the ledger it loaded and saves it: save_data writes
\* the whole of self.transactions over the file as it is now. ret is whether
\* the command succeeded.
ProcSave(p) ==
    /\ procs[p].pc = "loaded"
    /\ now' = now + 1
    /\ \E self \in { [transactions |-> procs[p].transactions, file |-> file] },
          command \in { procs[p].command } :
           \E r \in { CASE command.name = "add" ->
                              [add_transaction(self, command.id,
                                               command.updates.symbol[1],
                                               command.updates.platform[1],
                                               command.updates.amount[1],
                                               command.updates.qty[1],
                                               now + 1, "ok")
                                   EXCEPT !.ret = TRUE]
                         [] command.name = "edit" ->
                              update_transaction(self, command.id, command.updates,
                                                 now + 1, "ok")
                         [] command.name = "delete" ->
                              delete_transaction(self, command.id, now + 1, "ok") } :
               /\ file' = r.self.file
               /\ procs' = [procs EXCEPT ![p] =
                                [@ EXCEPT !.pc = "done",
                                          !.transactions = r.self.transactions,
                                          !.ret = r.ret]]
    /\ UNCHANGED << transactions, cmd, result, report, prices, venues >>
    /\ UNCHANGED << gui_vars, fn_vars, tasks, callbacks, gui_list >>

ConcurrentNext == \E p \in Procs : ProcLoad(p) \/ ProcSave(p)

\* Two command-line processes running a mutating command each on the same
\* data file.
ConcurrentSpec == ConcurrentInit /\ [][ConcurrentNext]_vars

\* ------------------------------------------------ overlapping GUI refreshes

\* A background task of refresh_data that has been started and has not yet
\* read the file.
NewTask == [pc |-> "started", df |-> << >>, portfolio_data |-> NoReport]

\* PortfolioApp.__init__ ends with self.refresh_data(): the first task is
\* started before any button is pressed.
RefreshInit ==
    /\ file = FileAbsent
    /\ now = 0
    /\ transactions = EmptyLedger
    /\ cmd = Command("none", "", FALSE)
    /\ result = "none"
    /\ report = NoReport
    /\ prices = << >>
    /\ venues = << >>
    /\ csv_file = [exists |-> FALSE, rows |-> << >>]
    /\ gui_result = "none"
    /\ gui_report = NoReport
    /\ gui_now = 0
    /\ classify_arg = << >>
    /\ classify_ret = None
    /\ adapter_arg = << >>
    /\ adapter_ret = None
    /\ procs = [p \in Procs |-> NotStarted]
    /\ tasks = << NewTask >>
    /\ callbacks = << >>
    /\ gui_list = << >>

\* The Refresh button: refresh_data starts a daemon thread and returns.
RefreshButton ==
    /\ Len(tasks) < MaxTasks
    /\ tasks' = Append(tasks, NewTask)
    /\ gui_result' = "refreshing"
    /\ UNCHANGED << csv_file, gui_report, gui_now, callbacks, gui_list >>
    /\ UNCHANGED << cli_vars, fn_vars, procs >>

\* The Add button with valid entries: the row is appended and refresh_data
\* starts a task, while earlier tasks may still be running.
AddThenRefresh ==
    /\ Len(tasks) < MaxTasks
    /\ gui_now < MaxTime
    /\ gui_now' = gui_now + 1
    /\ \E symbol \in GuiSymbolInputs \ { << >> } :
           csv_file' = append_tx(csv_file, symbol, binance, Flt(3), Flt(3),
                                 gui_now + 1)
    /\ tasks' = Append(tasks, NewTask)
    /\ gui_result' = "added"
    /\ UNCHANGED << gui_report, callbacks, gui_list >>
    /\ UNCHANGED << cli_vars, fn_vars, procs >>

\* update_data in the thread, first half: df = read_tx() and the list update
\* posted with root.after(0, ...).
TaskRead(i) ==
    /\ tasks[i].pc = "started"
    /\ \E df \in { read_tx(csv_file) } :
           /\ tasks' = [tasks EXCEPT ![i] = [@ EXCEPT !.pc = "fetching", !.df = df]]
           /\ callbacks' = Append(callbacks,
                                  [fn |-> "update_transactions_list", df |-> df,
                                   portfolio_data |-> NoReport])
    /\ UNCHANGED << gui_vars, gui_list >>
    /\ UNCHANGED << cli_vars, fn_vars, procs >>

\* update_data in the thread, second half: build_portfolio_data(df) fetches
\* the prices, and the table update (or the error box) is posted.
TaskBuild(i) ==
    /\ tasks[i].pc = "fetching"
    /\ \E px \in [PairsOfFrame(tasks[i].df) -> FetchOutcomes] :
           \E r \in { build_portfolio_data(tasks[i].df, px) } :
               /\ tasks' = [tasks EXCEPT ![i] =
                                [@ EXCEPT !.pc = "done", !.portfolio_data = r]]
               /\ callbacks' = Append(callbacks,
                                      [fn |-> IF r.raised THEN "showerror"
                                              ELSE "update_portfolio_tables",
                                       df |-> tasks[i].df,
                                       portfolio_data |-> r])
    /\ UNCHANGED << gui_vars, gui_list >>
    /\ UNCHANGED << cli_vars, fn_vars, procs >>

\* The Tk main loop runs the oldest posted callback.
RunCallback ==
    /\ callbacks # << >>
    /\ callbacks' = Tail(callbacks)
    /\ \E callback \in { Head(callbacks) } :
           CASE callback.fn = "update_transactions_list" ->
                    /\ gui_list' = callback.df
                    /\ UNCHANGED gui_report
             [] callback.fn = "update_portfolio_tables" ->
                    /\ gui_report' = callback.portfolio_data
                    /\ UNCHANGED gui_list
             [] callback.fn = "showerror" ->
                    /\ gui_report' = [gui_report EXCEPT !.raised = TRUE]
                    /\ UNCHANGED gui_list
    /\ UNCHANGED << csv_file, gui_result, gui_now, tasks >>
    /\ UNCHANGED << cli_vars, fn_vars, procs >>

RefreshNext ==
    \/ RefreshButton
    \/ AddThenRefresh
    \/ \E i \in 1..Len(tasks) : TaskRead(i)
    \/ \E i \in 1..Len(tasks) : TaskBuild(i)
    \/ RunCallback

\* The GUI with its refreshes running in background threads.
RefreshSpec == RefreshInit /\ [][RefreshNext]_vars

\* ------------------------------------------------------------------ claims

\* The PortfolioData instance of the last command, as it was at its end.
Instance == [transactions |-> transactions, file |-> file]

\* The ledger a command loads from file f when its load fails or not.
Loaded(f, load_failed) ==
    load_data(f, IF load_failed THEN "ioerror" ELSE "ok").transactions

\* C1: in a report on a non-empty ledger, whatever fetches fail, the report
\* is returned with one row per pair; the row of a pair whose fetch failed
\* has live price nan; and every other row equals the row of the run in
\* which that failing fetch had returned a price.
C1_FetchFailureIsolated ==
    (cmd.name = "report" /\ transactions # EmptyLedger) =>
        /\ ~report.raised
        /\ { RowKey(report.grouped[i]) : i \in 1..Len(report.grouped) }
               = PairsOf(transactions)
        /\ Len(report.grouped) = Cardinality(PairsOf(transactions))
        /\ \A i \in 1..Len(report.grouped) :
               prices[RowKey(report.grouped[i])] = None
                   => IsNaN(report.grouped[i].live_price)
        /\ \A failing \in { q \in DOMAIN prices : prices[q] = None } :
               \A v \in FetchOutcomes \ { None } :
                   LET other == generate_report(
                                    Instance, [prices EXCEPT ![failing] = v])
                   IN  /\ ~other.raised
                       /\ Len(other.grouped) = Len(report.grouped)
                       /\ \A i \in 1..Len(report.grouped) :
                              RowKey(report.grouped[i]) # failing
                                  => other.grouped[i] = report.grouped[i]

\* C1 witness: a report of two pairs in which one fetch failed and the other
\* returned a price.
C1_Witness ==
    /\ cmd.name = "report"
    /\ ~report.raised
    /\ Len(report.grouped) = 2
    /\ \E p, q \in DOMAIN prices : prices[p] = None /\ prices[q] # None

\* C2: every transaction of the persisted ledger has amount > 0 and qty > 0.
C2_AmountAndQtyPositive ==
    \A id \in DOMAIN file.data.transactions :
        /\ file.data.transactions[id].amount.n > 0
        /\ file.data.transactions[id].qty.n > 0

\* Every amount and quantity of a ledger is positive.
AllPositive(ledger) ==
    \A id \in DOMAIN ledger :
        FPositive(ledger[id].amount) /\ FPositive(ledger[id].qty)

\* C3: in the asset-class summary of a report (here on a ledger of positive
\* amounts and quantities), a class with a position whose market value is
\* unavailable has market value, PnL and PnL percent unavailable.
C3_AssetClassUnavailablePropagates ==
    (cmd.name = "report" /\ ~report.raised /\ AllPositive(transactions)) =>
        \A j \in 1..Len(report.asset_summary) :
            (\E i \in 1..Len(report.grouped) :
                 /\ report.grouped[i].asset_class = report.asset_summary[j].asset_class
                 /\ IsNaN(report.grouped[i].market_value))
            => /\ IsNaN(report.asset_summary[j].market_value)
               /\ IsNaN(report.asset_summary[j].pnl_usd)
               /\ IsNaN(report.asset_summary[j].pnl_pct)

\* C4: with a row whose platform has no adapter in the ledger, a refresh
\* still produces the report, with a row for every pair, the unsupported
\* pair's live price being nan.
C4_UnsupportedVenueIsolated ==
    LET df == read_tx(csv_file)
    IN  (gui_result \in { "added", "updated", "deleted", "refreshed" }
         /\ \E i \in 1..Len(df) : df[i].platform \notin GuiMAPPER) =>
            /\ ~gui_report.raised
            /\ { RowKey(gui_report.grouped[i]) : i \in 1..Len(gui_report.grouped) }
                   = PairsOfFrame(df)
            /\ \A i \in 1..Len(gui_report.grouped) :
                   gui_report.grouped[i].platform \notin GuiMAPPER
                       => IsNaN(gui_report.grouped[i].live_price)

\* C5: the data file is never left truncated (empty or partial) by a write
\* that failed: it is absent or a complete document.
C5_FileNeverTruncated == file.state \in { "absent", "complete" }

\* C6: a command whose load of the ledger failed ends with an error and does
\* not touch the file.
C6_ReadFailureIsFatal ==
    [][cmd'.load_failed => (result' = "error" /\ file' = file)]_vars

\* C7: an edit or delete naming an identifier that is not in the ledger
\* reports not-found and changes neither the file nor the loaded ledger; and
\* on every instance a command leaves, update_transaction and
\* delete_transaction called with any identifier it does not hold return
\* False without any change (no save, no stamp), whatever a write would do.
C7_UnknownIdNoChange ==
    /\ [][(/\ cmd'.name \in { "edit", "delete" }
           /\ cmd'.id \notin DOMAIN Loaded(file, cmd'.load_failed))
          => /\ result' = "not_found"
             /\ file' = file
             /\ transactions' = Loaded(file, cmd'.load_failed)]_vars
    /\ [](\A id \in UuidValues \ DOMAIN transactions :
              \A wr \in WriteOutcomes :
                  LET unchanged == [self |-> Instance, ret |-> FALSE, raised |-> FALSE]
                  IN  /\ delete_transaction(Instance, id, now + 1, wr) = unchanged
                      /\ \A kwargs \in EditInputs :
                             update_transaction(Instance, id, kwargs, now + 1, wr)
                                 = unchanged)

\* C7 witness: an edit named an identifier the non-empty persisted ledger
\* does not hold.
C7_Witness ==
    /\ cmd.name = "edit"
    /\ result = "not_found"
    /\ file.state = "complete"
    /\ transactions # EmptyLedger
    /\ cmd.id \notin DOMAIN transactions

\* C8: every successful add puts its transaction under an identifier the
\* loaded ledger did not hold, so the ledger grows by exactly one.
C8_AddAssignsFreshId ==
    [][(cmd'.name = "add" /\ result' = "added")
       => /\ cmd'.id \notin DOMAIN Loaded(file, cmd'.load_failed)
          /\ Cardinality(DOMAIN transactions')
                 = Cardinality(DOMAIN Loaded(file, cmd'.load_failed)) + 1]_vars

\* The number of calls of the adapter for a pair in a sequence of calls.
CallCount(calls, key) == Cardinality({ i \in 1..Len(calls) : calls[i] = key })

\* C9: a report run calls the price adapter exactly once for each pair of
\* the ledger and for nothing else.
C9_OneFetchPerPair ==
    cmd.name = "report" =>
        /\ \A key \in PairsOf(transactions) : CallCount(report.calls, key) = 1
        /\ \A i \in 1..Len(report.calls) : report.calls[i] \in PairsOf(transactions)

\* C9 witness: a report on two transactions that share one pair, whose one
\* fetch failed.
C9_Witness ==
    /\ cmd.name = "report"
    /\ Cardinality(DOMAIN transactions) = 2
    /\ Cardinality(PairsOf(transactions)) = 1
    /\ Len(report.calls) = 1
    /\ prices[report.calls[1]] = None

\* C10: a report on an empty ledger gives three empty tables and calls no
\* price adapter.
C10_EmptyLedgerNoFetch ==
    (cmd.name = "report" /\ transactions = EmptyLedger) =>
        /\ ~report.raised
        /\ report.grouped = << >>
        /\ report.coin_lvl = << >>
        /\ report.asset_summary = << >>
        /\ report.calls = << >>

\* C10 witness: a report on a ledger that a deletion emptied.
C10_Witness ==
    /\ cmd.name = "report"
    /\ result = "report"
    /\ file.state = "complete"
    /\ transactions = EmptyLedger

\* The plain sum of a field over the transactions ids of a ledger.
RECURSIVE SumOver(_, _, _)
SumOver(ledger, ids, field) ==
    IF ids = {} THEN Flt(0)
    ELSE LET id == CHOOSE i \in ids : TRUE
         IN  FAdd(ledger[id][field], SumOver(ledger, ids \ { id }, field))

\* The transactions of a ledger with a platform x symbol pair, with a symbol.
IdsOfPair(ledger, platform, symbol) ==
    { id \in DOMAIN ledger :
        ledger[id].platform = platform /\ ledger[id].symbol = symbol }

IdsOfSymbol(ledger, symbol) ==
    { id \in DOMAIN ledger : ledger[id].symbol = symbol }

\* C11: in a report, there is one position row per platform x symbol pair of
\* the ledger and one symbol row per symbol, and the total quantity, total
\* cost and average cost of each are sum(qty), sum(amount) and
\* sum(amount) / sum(qty) over exactly the transactions of that pair (of
\* that symbol, on any platform).
C11_GroupTotalsAreSums ==
    (cmd.name = "report" /\ ~report.raised) =>
        /\ { RowKey(report.grouped[i]) : i \in 1..Len(report.grouped) }
               = PairsOf(transactions)
        /\ \A i \in 1..Len(report.grouped) :
               LET row == report.grouped[i]
                   ids == IdsOfPair(transactions, row.platform, row.symbol)
               IN  /\ row.total_qty = SumOver(transactions, ids, "qty")
                   /\ row.total_cost = SumOver(transactions, ids, "amount")
                   /\ row.avg_cost = FDiv(SumOver(transactions, ids, "amount"),
                                          SumOver(transactions, ids, "qty"))
        /\ { report.coin_lvl[i].symbol : i \in 1..Len(report.coin_lvl) }
               = { transactions[id].symbol : id \in DOMAIN transactions }
        /\ \A i \in 1..Len(report.coin_lvl) :
               LET row == report.coin_lvl[i]
                   ids == IdsOfSymbol(transactions, row.symbol)
               IN  /\ row.total_qty = SumOver(transactions, ids, "qty")
                   /\ row.total_cost = SumOver(transactions, ids, "amount")
                   /\ row.avg_cost_all_platform
                          = FDiv(SumOver(transactions, ids, "amount"),
                                 SumOver(transactions, ids, "qty"))

\* C11 witness: a report on two transactions of one symbol on two platforms:
\* two position rows and one symbol row that sums both.
C11_Witness ==
    /\ cmd.name = "report"
    /\ ~report.raised
    /\ Cardinality(DOMAIN transactions) = 2
    /\ Len(report.grouped) = 2
    /\ Len(report.coin_lvl) = 1
    /\ report.coin_lvl[1].total_cost
           = FAdd(report.grouped[1].total_cost, report.grouped[2].total_cost)

\* C12: a position row whose fetch returned a price has that price as live
\* price, market value = live price x total quantity, PnL = market value -
\* total cost, and PnL percent = PnL / total cost x 100.
C12_AvailablePriceDerivedValues ==
    (cmd.name = "report" /\ ~report.raised) =>
        \A i \in 1..Len(report.grouped) :
            LET row == report.grouped[i]
            IN  prices[RowKey(row)] # None =>
                    /\ row.live_price = prices[RowKey(row)][1]
                    /\ row.market_value = FMul(row.live_price, row.total_qty)
                    /\ row.pnl_usd = FSub(row.market_value, row.total_cost)
                    /\ row.pnl_pct
                           = FMul(FDiv(row.pnl_usd, row.total_cost), Flt(100))

\* C12 witness: a row bought for 3 (quantity 2) with live price 4: market
\* value 8, PnL 5, PnL percent 500/3.
C12_Witness ==
    /\ cmd.name = "report"
    /\ ~report.raised
    /\ \E i \in 1..Len(report.grouped) :
           /\ prices[RowKey(report.grouped[i])] = Some(Flt(4))
           /\ report.grouped[i].total_cost = Flt(3)
           /\ report.grouped[i].market_value = Flt(8)
           /\ report.grouped[i].pnl_usd = Flt(5)
           /\ report.grouped[i].pnl_pct = [k |-> "num", n |-> 500, d |-> 3]

\* C13: a position row whose fetch failed has live price, market value, PnL
\* and PnL percent nan (not zero, not any number), and its total quantity,
\* total cost and average cost are the sums over its transactions and their
\* quotient.
C13_UnavailablePricePropagates ==
    (cmd.name = "report" /\ ~report.raised) =>
        \A i \in 1..Len(report.grouped) :
            LET row == report.grouped[i]
                ids == IdsOfPair(transactions, row.platform, row.symbol)
            IN  prices[RowKey(row)] = None =>
                    /\ IsNaN(row.live_price)
                    /\ IsNaN(row.market_value)
                    /\ IsNaN(row.pnl_usd)
                    /\ IsNaN(row.pnl_pct)
                    /\ row.total_qty = SumOver(transactions, ids, "qty")
                    /\ row.total_cost = SumOver(transactions, ids, "amount")
                    /\ row.avg_cost = FDiv(row.total_cost, row.total_qty)

\* C13 witness: a row of two transactions (cost 6, quantity 4, average 3/2)
\* whose fetch failed.
C13_Witness ==
    /\ cmd.name = "report"
    /\ ~report.raised
    /\ \E i \in 1..Len(report.grouped) :
           /\ prices[RowKey(report.grouped[i])] = None
           /\ report.grouped[i].total_cost = Flt(6)
           /\ report.grouped[i].total_qty = Flt(4)
           /\ report.grouped[i].avg_cost = [k |-> "num", n |-> 3, d |-> 2]
           /\ IsNaN(report.grouped[i].market_value)

\* C14: every stored symbol is upper case and every stored platform is lower
\* case.
C14_StoredCaseNormalised ==
    \A id \in DOMAIN file.data.transactions :
        LET transaction == file.data.transactions[id]
        IN  /\ transaction.symbol = Upper(transaction.symbol)
            /\ transaction.platform = Lower(transaction.platform)

\* C15: every transaction, in the ledger of the last command and in the
\* data file, has asset_class = classify_asset(its symbol).
C15_AssetClassFollowsSymbol ==
    /\ \A id \in DOMAIN transactions :
           transactions[id].asset_class = classify_asset(transactions[id].symbol)
    /\ \A id \in DOMAIN file.data.transactions :
           file.data.transactions[id].asset_class
               = classify_asset(file.data.transactions[id].symbol)

\* C15 witness: an edit stored a new symbol (only an edit stores a lower-case
\* one) and the saved transaction is classed crypto.
C15_Witness ==
    /\ cmd.name = "edit"
    /\ result = "updated"
    /\ cmd.id \in DOMAIN file.data.transactions
    /\ file.data.transactions[cmd.id].symbol = btcusd
    /\ file.data.transactions[cmd.id].asset_class = crypto
    /\ file.data.transactions[cmd.id].last_modified # None

\* The character c is the letter upper (an upper-case letter) in either case.
SameLetter(c, upper) == c = upper \/ c = LowerChar(upper)

\* C16: classify_asset returns "crypto" exactly when the last three
\* characters of the symbol are u, s, d in any mix of cases, and "stock"
\* otherwise.
C16_CryptoIffEndsWithUSD ==
    classify_ret # None =>
        LET n == Len(classify_arg)
            ends == /\ n >= 3
                    /\ SameLetter(classify_arg[n - 2], "U")
                    /\ SameLetter(classify_arg[n - 1], "S")
                    /\ SameLetter(classify_arg[n], "D")
        IN  /\ classify_ret[1] \in { crypto, stock }
            /\ classify_ret[1] = crypto <=> ends
            /\ classify_arg \in { USD, << "X", "U", "S", "D" >>, btcusd }
                   => classify_ret[1] = crypto
            /\ classify_arg \in { << "U", "S", "D", "X" >>, << "U", "S" >>, << >> }
                   => classify_ret[1] = stock

\* C16 witness: classify_asset("btcusd") returned "crypto".
C16_Witness ==
    /\ classify_arg = btcusd
    /\ classify_ret = Some(crypto)

\* The tables of a report r are over exactly the ledger: a position row per
\* pair, a symbol row per symbol and a class row per asset class of the
\* ledger's transactions and no other, with the sums over them as totals.
TablesAreOver(r, ledger) ==
    /\ { RowKey(r.grouped[i]) : i \in 1..Len(r.grouped) } = PairsOf(ledger)
    /\ Len(r.grouped) = Cardinality(PairsOf(ledger))
    /\ \A i \in 1..Len(r.grouped) :
           LET ids == IdsOfPair(ledger, r.grouped[i].platform, r.grouped[i].symbol)
           IN  /\ r.grouped[i].total_qty = SumOver(ledger, ids, "qty")
               /\ r.grouped[i].total_cost = SumOver(ledger, ids, "amount")
    /\ { r.coin_lvl[i].symbol : i \in 1..Len(r.coin_lvl) }
           = { ledger[id].symbol : id \in DOMAIN ledger }
    /\ \A i \in 1..Len(r.coin_lvl) :
           LET ids == IdsOfSymbol(ledger, r.coin_lvl[i].symbol)
           IN  /\ r.coin_lvl[i].total_qty = SumOver(ledger, ids, "qty")
               /\ r.coin_lvl[i].total_cost = SumOver(ledger, ids, "amount")
    /\ { r.asset_summary[i].asset_class : i \in 1..Len(r.asset_summary) }
           = { ledger[id].asset_class : id \in DOMAIN ledger }
    /\ \A i \in 1..Len(r.asset_summary) :
           LET ids == { id \in DOMAIN ledger :
                          ledger[id].asset_class = r.asset_summary[i].asset_class }
           IN  r.asset_summary[i].total_cost = SumOver(ledger, ids, "amount")

\* C17: a delete command that succeeds leaves the ledger, in memory and in
\* the file, equal to the loaded one without the identifier; a report made
\* from the resulting instance, whatever the fetches do, has its tables over
\* the remaining transactions only; and a later report command that loads
\* the file reports over exactly the ledger the file holds.
C17_DeletedLeavesNoResidue ==
    /\ [][(cmd'.name = "delete" /\ result' = "deleted") =>
             LET before == Loaded(file, cmd'.load_failed)
                 self == [transactions |-> transactions', file |-> file']
             IN  /\ cmd'.id \in DOMAIN before
                 /\ cmd'.id \notin DOMAIN transactions'
                 /\ transactions'
                        = [id \in DOMAIN before \ { cmd'.id } |-> before[id]]
                 /\ file'.state = "complete"
                 /\ file'.data.transactions = transactions'
                 /\ \A px \in [PairsOf(transactions') -> FetchOutcomes] :
                        \A r \in { generate_report(self, px) } :
                            ~r.raised /\ TablesAreOver(r, transactions')]_vars
    /\ []((cmd.name = "report" /\ ~cmd.load_failed) =>
             /\ transactions = file.data.transactions
             /\ ~report.raised
             /\ TablesAreOver(report, file.data.transactions))

\* C17 witness: a report after a successful delete (the only command that
\* saves here) that left one of two transactions: one row with the totals
\* of the remaining transaction.
C17_Witness ==
    /\ cmd.name = "report"
    /\ ~cmd.load_failed
    /\ file.data.last_updated = 1
    /\ Cardinality(DOMAIN transactions) = 1
    /\ Len(report.grouped) = 1
    /\ \E id \in DOMAIN transactions :
           /\ transactions[id].timestamp \in { -1, 0 }
           /\ report.grouped[1].total_cost = transactions[id].amount
           /\ report.grouped[1].total_qty = transactions[id].qty

C20_EveryFetchTimesOut ==
    cmd.name = "report" =>
        /\ result # "blocked"
        /\ ~report.raised
        /\ Len(report.grouped) = Cardinality(DOMAIN venues)
        /\ \A i \in 1..Len(report.grouped) :
               ~venues[RowKey(report.grouped[i])].responds
                   => IsNaN(report.grouped[i].live_price)

\* C21: no position row and no symbol row of a report has an infinite or
\* nan average cost: a group of zero total quantity is rejected, not
\* divided by.
C21_NoAverageFromZeroQuantity ==
    (cmd.name = "report" /\ result = "report") =>
        /\ \A i \in 1..Len(report.grouped) :
               /\ report.grouped[i].total_qty # Flt(0)
               /\ IsNum(report.grouped[i].avg_cost)
        /\ \A i \in 1..Len(report.coin_lvl) :
               /\ report.coin_lvl[i].total_qty # Flt(0)
               /\ IsNum(report.coin_lvl[i].avg_cost_all_platform)

\* C22: the position rows of a report are in strictly ascending order of
\* platform, then symbol, and the symbol rows in strictly ascending order of
\* symbol (str order), whatever the order of the transactions in the ledger.
C22_RowsInKeyOrder ==
    (cmd.name = "report" /\ result = "report") =>
        /\ \A i, j \in 1..Len(report.grouped) :
               i < j =>
                   \/ StrLess(report.grouped[i].platform, report.grouped[j].platform)
                   \/ /\ report.grouped[i].platform = report.grouped[j].platform
                      /\ StrLess(report.grouped[i].symbol, report.grouped[j].symbol)
        /\ \A i, j \in 1..Len(report.coin_lvl) :
               i < j => StrLess(report.coin_lvl[i].symbol, report.coin_lvl[j].symbol)

\* C22 witness: a report of two position rows and two symbol rows whose
\* first row comes from the transaction that is second in the frame.
C22_Witness ==
    /\ cmd.name = "report"
    /\ result = "report"
    /\ Len(report.grouped) = 2
    /\ Len(report.coin_lvl) = 2
    /\ \E df \in { to_dataframe(Instance) } :
           /\ Len(df) = 2
           /\ << df[2].platform, df[2].symbol >> = RowKey(report.grouped[1])
           /\ df[2].symbol = report.coin_lvl[1].symbol

\* C23: every failed price fetch of a report is surfaced as a warning that
\* names the platform and the symbol of the failed pair: in the GUI, after a
\* refresh that built the tables, every position row whose live price is
\* unavailable has a warning naming its pair.
C23_FailedFetchWarned ==
    (gui_result \in { "added", "updated", "deleted", "refreshed" }
     /\ ~gui_report.raised) =>
        \A i \in 1..Len(gui_report.grouped) :
            IsNaN(gui_report.grouped[i].live_price) =>
                \E w \in 1..Len(gui_report.warnings) :
                    gui_report.warnings[w] = RowKey(gui_report.grouped[i])

\* C24: in the GUI, an add or an edit with an amount or a quantity that is
\* not a number or is <= 0, or with an empty symbol or platform, is rejected
\* with an error and leaves transactions.csv exactly as it was; so no row of
\* the file ever has an empty symbol or platform, or an amount or a quantity
\* that is not positive.
C24_GuiInvalidInputRejected ==
    /\ [][gui_result' \in { "invalid_number", "missing_field", "not_positive" }
              => csv_file' = csv_file]_vars
    /\ [](\A i \in 1..Len(read_tx(csv_file)) :
              /\ read_tx(csv_file)[i].symbol # << >>
              /\ read_tx(csv_file)[i].platform # << >>
              /\ IsNum(read_tx(csv_file)[i].amount)
              /\ read_tx(csv_file)[i].amount.n > 0
              /\ IsNum(read_tx(csv_file)[i].qty)
              /\ read_tx(csv_file)[i].qty.n > 0)

C24_Witness ==
    /\ gui_result = "not_positive"
    /\ Len(read_tx(csv_file)) = 2

\* C25: the instrument the OKX and the Coinbase adapter request for a symbol
\* without a hyphen (of three characters or more) is the upper-case symbol
\* with a hyphen after its third character; for a symbol with a hyphen it
\* is the upper-case symbol; BTCUSD, btcusd and BTC-USD all give BTC-USD.
C25_InstrumentHyphenated ==
    adapter_ret # None =>
        \A ret \in { adapter_ret[1].instrument } :
            /\ (~(\E i \in 1..Len(adapter_arg) : adapter_arg[i] = "-")
                 /\ Len(adapter_arg) >= 3) =>
                   /\ Len(ret) = Len(adapter_arg) + 1
                   /\ ret[4] = "-"
                   /\ \A i \in 1..3 : ret[i] = UpperChar(adapter_arg[i])
                   /\ \A i \in 4..Len(adapter_arg) :
                          ret[i + 1] = UpperChar(adapter_arg[i])
            /\ (\E i \in 1..Len(adapter_arg) : adapter_arg[i] = "-") =>
                   /\ Len(ret) = Len(adapter_arg)
                   /\ \A i \in 1..Len(adapter_arg) :
                          ret[i] = UpperChar(adapter_arg[i])
            /\ adapter_arg \in { BTCUSD, btcusd, BTC_USD } => ret = BTC_USD

C25_Witness ==
    /\ adapter_arg = btcusd
    /\ adapter_ret = Some([venue |-> coinbase, instrument |-> BTC_USD])

\* C26: an edit that succeeded leaves the number of transactions, their
\* keys and every transaction but the target as they were loaded, and the
\* target's id and timestamp too; and on every instance a command leaves, a
\* successful update_transaction of any transaction it holds, with any
\* keyword arguments, sets the supplied fields, the asset class of a
\* supplied symbol and last_modified, and nothing else.
C26_UpdateChangesOnlySupplied ==
    /\ [][(cmd'.name = "edit" /\ result' = "updated") =>
              \A before \in { Loaded(file, FALSE) } :
                  /\ DOMAIN transactions' = DOMAIN before
                  /\ cmd'.id \in DOMAIN before
                  /\ \A id \in DOMAIN before \ { cmd'.id } :
                         transactions'[id] = before[id]
                  /\ transactions'[cmd'.id].id = before[cmd'.id].id
                  /\ transactions'[cmd'.id].timestamp = before[cmd'.id].timestamp
                  /\ file'.data.transactions = transactions']_vars
    /\ [](\A id \in DOMAIN transactions, kwargs \in EditInputs :
              \A r \in { update_transaction(Instance, id, kwargs, now + 1, "ok") } :
                  \A old \in { transactions[id] } :
                      \A new \in { r.self.transactions[id] } :
                          /\ r.ret /\ ~r.raised
                          /\ DOMAIN r.self.transactions = DOMAIN transactions
                          /\ \A other \in DOMAIN transactions \ { id } :
                                 r.self.transactions[other] = transactions[other]
                          /\ new.id = old.id
                          /\ new.timestamp = old.timestamp
                          /\ new.symbol = IF kwargs.symbol = None THEN old.symbol
                                          ELSE kwargs.symbol[1]
                          /\ new.platform = IF kwargs.platform = None THEN old.platform
                                            ELSE kwargs.platform[1]
                          /\ new.amount = IF kwargs.amount = None THEN old.amount
                                          ELSE kwargs.amount[1]
                          /\ new.qty = IF kwargs.qty = None THEN old.qty
                                       ELSE kwargs.qty[1]
                          /\ kwargs.symbol = None => new.asset_class = old.asset_class
                          /\ new.last_modified = Some(now + 1)
                          /\ DOMAIN new = DOMAIN old)

C26_Witness ==
    /\ cmd.name = "edit" /\ result = "updated"
    /\ Cardinality(DOMAIN transactions) = 2
    /\ \E id \in DOMAIN transactions \ { cmd.id } :
           transactions[id].last_modified = None
    /\ transactions[cmd.id].symbol = btcusd
    /\ transactions[cmd.id].qty = Flt(2)

\* C27: after every add, edit or delete that succeeded, a new PortfolioData
\* loading the data file holds exactly the transactions of the ledger of
\* the instance that did the operation: the same identifiers and the same
\* field values.
C27_FileMatchesLedger ==
    (cmd.name \in { "add", "edit", "delete" }
     /\ result \in { "added", "updated", "deleted" }) =>
        /\ ~load_data(file, "ok").failed
        /\ PortfolioData(file, "ok").transactions = transactions
        /\ DOMAIN PortfolioData(file, "ok").transactions = DOMAIN transactions

C27_Witness ==
    /\ cmd.name = "edit" /\ result = "updated"
    /\ transactions # EmptyLedger
    /\ PortfolioData(file, "ok").transactions = transactions
    /\ transactions[cmd.id].amount = Flt(-1)
    /\ transactions[cmd.id].qty = Flt(2)

\* The ledger shows the effect of a command: the transaction an add made,
\* the fields an edit set, the absence of the transaction a delete removed.
Reflected(ledger, command) ==
    CASE command.name = "add" ->
             /\ command.id \in DOMAIN ledger
             /\ ledger[command.id].symbol = Upper(command.updates.symbol[1])
             /\ ledger[command.id].amount = command.updates.amount[1]
             /\ ledger[command.id].qty = command.updates.qty[1]
      [] command.name = "edit" ->
             /\ command.id \in DOMAIN ledger
             /\ command.updates.symbol # None =>
                    ledger[command.id].symbol = command.updates.symbol[1]
             /\ command.updates.amount # None =>
                    ledger[command.id].amount = command.updates.amount[1]
      [] command.name = "delete" -> command.id \notin DOMAIN ledger

\* C28: when two command-line processes have both run a mutating command
\* with success on the same data file, on different transactions, the
\* persisted ledger shows the effect of both, in every interleaving of
\* their loads and saves.
C28_NoLostUpdate ==
    (/\ \A p \in Procs : procs[p].pc = "done" /\ procs[p].ret
     /\ \A p, q \in Procs : p # q => procs[p].command.id # procs[q].command.id)
        => \A p \in Procs : Reflected(file.data.transactions, procs[p].command)

\* The columns of the report tables that depend on the ledger snapshot
\* alone, not on the prices fetched.
SnapshotColumns(r) ==
    [grouped |-> [i \in 1..Len(r.grouped) |->
                     << RowKey(r.grouped[i]), r.grouped[i].total_qty,
                        r.grouped[i].total_cost >>],
     coin_lvl |-> r.coin_lvl]

\* C29: once every refresh task that was started has completed and every
\* posted callback has run, the transaction list and the report tables show
\* the ledger snapshot the most recently started refresh read.
C29_NewestRefreshShown ==
    (/\ tasks # << >>
     /\ \A i \in 1..Len(tasks) : tasks[i].pc = "done"
     /\ callbacks = << >>)
        => /\ gui_list = tasks[Len(tasks)].df
           /\ SnapshotColumns(gui_report)
                  = SnapshotColumns(tasks[Len(tasks)].portfolio_data)

\* The sum of the column of the rows of a table.
RECURSIVE ColumnSum(_, _)
ColumnSum(rows, column) ==
    IF rows = << >> THEN Flt(0)
    ELSE FAdd(Head(rows)[column], ColumnSum(Tail(rows), column))

\* C30: in every report, the total_cost of the position rows, of the symbol
\* rows and of the asset-class rows each add up to the sum of the amounts
\* of the ledger, and the total quantity of each symbol row is the sum of
\* the total quantities of the position rows of that symbol, whatever the
\* fetches returned.
C30_CostConserved ==
    (cmd.name = "report" /\ result = "report") =>
        \A ledger_cost \in { SumOver(transactions, DOMAIN transactions, "amount") } :
            /\ ColumnSum(report.grouped, "total_cost") = ledger_cost
            /\ ColumnSum(report.coin_lvl, "total_cost") = ledger_cost
            /\ ColumnSum(report.asset_summary, "total_cost") = ledger_cost
            /\ \A i \in 1..Len(report.coin_lvl) :
                   report.coin_lvl[i].total_qty
                       = ColumnSum(SelectSeq(report.grouped,
                                             LAMBDA row :
                                                 row.symbol = report.coin_lvl[i].symbol),
                                   "total_qty")

C30_Witness ==
    /\ cmd.name = "report" /\ result = "report"
    /\ Len(report.grouped) = 2
    /\ Len(report.coin_lvl) = 1
    /\ report.grouped[1].total_cost # report.coin_lvl[1].total_cost
    /\ \E p, q \in DOMAIN prices : prices[p] = None /\ prices[q] # None

====
